---- MODULE Spec2Model ----
(***************************************************************************)
(* Model of antenna_match_optimizer/optimizer.py: catalog search           *)
(* (closest_values), tolerance expansion (expand_tolerance), discrete      *)
(* candidate generation (component_combinations), evaluation and ranking   *)
(* (evaluate_components) and the per-topology optimisation loop (optimize).*)
(*                                                                         *)
(* Component values are integers in units of 1e-3 (1000 stands for 1.0 nH  *)
(* or 1.0 pF), so the constant 0.001 of the code is 1 and the 0.1% test    *)
(* |c/v - 1| > 1e-3 is 1000 * |c - v| > v.  np.NaN is the integer NaN.     *)
(* A network is modelled by what the code reads of it: the component       *)
(* values it was built from (params) and its reflection magnitude per      *)
(* frequency point (s_mag).                                                *)
(***************************************************************************)
EXTENDS Integers, Sequences, FiniteSets

\* ---- bounds of the model ----
MaxRows == 3        \* rows of a catalog handed to closest_values
MaxParts == 2       \* rows of a catalog handed to component_combinations
MaxMinima == 2      \* ContinuousResults handed to evaluate_components
NPoints == 2        \* frequency points of the device network
MaxPorts == 2       \* ports of a network handed to OptimizerArgs
MaxHandlers == 2    \* request handler threads of the web application
MaxExampleRequests == 4   \* /example requests served in one process
MaxShares == 2      \* concurrent share requests with one name and band
MaxSerial == 3      \* serial numbers store_and_redirect tries
MaxTimedRequests == 2     \* requests that arm a timeout timer

\* ---- program constants ----
NaN == -1                  \* np.NaN, the "not applicable" slot
LowerSentinel == 1         \* 0.001 in closest_values
UpperFactor == 2           \* "* 2" in closest_values
ExactPerMille == 1000      \* 1 / 1e-3: the "exact match" threshold
IsCloseScale == 100000     \* 1 / rtol of np.isclose (rtol = 1e-5, atol = 1e-8)

\* the enumeration with the two-element topologies first
ArchEnumTwoElementFirst ==
  << "LshuntCseries", "CshuntLseries", "LseriesCshunt", "CseriesLshunt",
     "Lshunt", "Cshunt", "Lseries", "Cseries" >>

\* class Arch(Enum), in definition order
ArchEnum ==
  << "Lshunt", "Cshunt", "Lseries", "Cseries",
     "LshuntCseries", "CshuntLseries", "LseriesCshunt", "CseriesLshunt" >>

Arch == { ArchEnum[i] : i \in 1..Len(ArchEnum) }

\* ---- arithmetic helpers ----
Abs(a) == IF a < 0 THEN -a ELSE a

Sign(a) == IF a < 0 THEN -1 ELSE IF a > 0 THEN 1 ELSE 0

SetMax(S) == CHOOSE m \in S : \A n \in S : n <= m

SeqOf(S, n) == UNION { [1..k -> S] : k \in 0..n }

Perms(n) == { p \in [1..n -> 1..n] : \A i, j \in 1..n : p[i] = p[j] => i = j }

\* ---- inputs of the model ----
Nominals == {900, 1000, 1300}
Tolerances == {0, 100}
CatalogRows == Nominals \X Tolerances
Targets == {NaN, 1, 800, 950, 1001, 1010, 2600}

PartRows == { <<900, 0>>, <<1000, 100>> }
PartTargets == {NaN, 1, 950, 1001}

\* passives.INDUCTORS / passives.CAPACITORS: (nominal, tolerance) rows
INDUCTORS == << <<900, 0>>, <<1000, 100>> >>
CAPACITORS == << <<1000, 100>>, <<900, 0>> >>

VARIABLES
  pc,                 \* the call that produced the current state
  raised,             \* whether that call ended in an exception
  value, components, result,                      \* closest_values
  val_and_tolerance, expanded,                    \* expand_tolerance
  arch, x, inductors, capacitors,                 \* component_combinations
  searched, l_comps, c_comps, combinations,
  args, minima, tasks, tagged_nsets, scores, results,   \* evaluate_components
  optimized, minimize_calls,                      \* optimize
  base, number_of_ports, frequency, max_points,   \* OptimizerArgs
  self, assigned,
  result_arg, expanded_result,                    \* expand_result
  example_cache, ex_pc, ex_later, ex_response,    \* webapp: /example
  ex_calls, ex_started, ex_completed,
  sh_dir_ok, sh_preexisting, sh_names, sh_content,   \* webapp: share directory
  sh_pc, sh_serial, sh_returned,                  \* webapp: store_and_redirect
  to_count, to_req, to_phase,                     \* webapp: requests under timeout
  to_timer, to_owner, to_async, to_raised         \* webapp: timers, async exceptions

cvVars == <<value, components, result>>
etVars == <<val_and_tolerance, expanded>>
ccVars == <<arch, x, inductors, capacitors, searched, l_comps, c_comps, combinations>>
evVars == <<args, minima, tasks, tagged_nsets, scores, results>>
optVars == <<optimized, minimize_calls>>
ctorVars == <<base, number_of_ports, frequency, max_points, self, assigned>>
xrVars == <<result_arg, expanded_result>>
libVars == <<pc, raised, cvVars, etVars, ccVars, evVars, optVars, ctorVars, xrVars>>
exVars == <<example_cache, ex_pc, ex_later, ex_response, ex_calls, ex_started, ex_completed>>
shVars == <<sh_dir_ok, sh_preexisting, sh_names, sh_content, sh_pc, sh_serial, sh_returned>>
toVars == <<to_count, to_req, to_phase, to_timer, to_owner, to_async, to_raised>>
webVars == <<exVars, shVars, toVars>>
vars == <<libVars, webVars>>

\* ---- closest_values ----
\* np.isclose(a, b): |a - b| <= atol + rtol * |b|, false for NaN
IsClose(a, b) == a # NaN /\ b # NaN /\ IsCloseScale * Abs(a - b) <= 1 + Abs(b)

\* np.max(components[:, 0])
ColumnMax(comps) == SetMax({ comps[i][1] : i \in 1..Len(comps) })

\* the sign of rel = components[:, 0] / value - 1.0 (value > 0)
RelSign(v, row) == Sign(row[1] - v)

\* np.abs(rel) up to the common factor 1 / value; every entry is NaN for a NaN value
AbsDev(v, row) == IF v = NaN THEN 0 ELSE Abs(row[1] - v)

\* np.abs(rel[best[0]]) > 1e-3; a comparison with NaN is false
NotExact(v, row) == v # NaN /\ ExactPerMille * Abs(row[1] - v) > Abs(v)

\* an argsort of rel in place of np.abs(rel)
ArgSortsSigned(v, comps) ==
  { best \in Perms(Len(comps)) :
      \A i, j \in 1..Len(comps) :
        i < j => comps[best[i]][1] <= comps[best[j]][1] }

\* np.argsort(np.abs(rel)): the default sort is not stable, equal keys come in any order
ArgSorts(v, comps) ==
  { best \in Perms(Len(comps)) :
      \A i, j \in 1..Len(comps) :
        i < j => AbsDev(v, comps[best[i]]) <= AbsDev(v, comps[best[j]]) }

IsSentinelLow(v) == IsClose(v, LowerSentinel)

\* the upper sentinel taken at the catalog maximum itself
IsSentinelHighAtMax(v, comps) == IsClose(v, ColumnMax(comps))

IsSentinelHigh(v, comps) == IsClose(v, ColumnMax(comps) * UpperFactor)

\* np.max of an empty column raises; the first isclose short-circuits the second
closest_values_raises(v, comps) == ~IsSentinelLow(v) /\ comps = <<>>

\* the scan without the test of the sign: the next closest row only
ScanBestOneMore(v, comps, best, i, res) ==
  IF i > Len(comps) THEN res ELSE Append(res, comps[best[i]])

RECURSIVE ScanBest(_, _, _, _, _)
ScanBest(v, comps, best, i, res) ==
  IF i > Len(comps) THEN res
  ELSE LET r == Append(res, comps[best[i]])
       IN IF RelSign(v, comps[best[i]]) # RelSign(v, comps[best[1]])
          THEN r
          ELSE ScanBest(v, comps, best, i + 1, r)

closest_values(v, comps, best) ==
  IF IsSentinelLow(v) \/ IsSentinelHigh(v, comps)
  THEN << <<v, 0>> >>
  ELSE IF NotExact(v, comps[best[1]])
       THEN ScanBest(v, comps, best, 2, << comps[best[1]] >>)
       ELSE << comps[best[1]] >>

\* every list closest_values can return for the given arguments
ClosestValues(v, comps) ==
  IF IsSentinelLow(v) THEN { << <<v, 0>> >> }
  ELSE { closest_values(v, comps, best) : best \in ArgSorts(v, comps) }

\* ---- expand_tolerance ----
\* the corners in ascending order
expand_tolerance_ascending(row) ==
  IF row[2] > 0 THEN <<row[1] - row[2], row[1], row[1] + row[2]>> ELSE <<row[1]>>

expand_tolerance(row) ==
  LET val == row[1]
      tolerance == row[2]
  IN IF tolerance > 0 THEN <<val, val - tolerance, val + tolerance>> ELSE <<val>>

\* ---- component_combinations ----
RECURSIVE Flatten(_)
Flatten(ss) == IF ss = <<>> THEN <<>> ELSE Head(ss) \o Flatten(Tail(ss))

\* a product whose first argument varies fastest
ProductFirstFastest(a, b) ==
  Flatten([j \in 1..Len(b) |-> [i \in 1..Len(a) |-> <<a[i], b[j]>>]])

\* itertools.product(a, b): the first argument varies slowest
Product(a, b) == Flatten([i \in 1..Len(a) |-> [j \in 1..Len(b) |-> <<a[i], b[j]>>]])

IsLOnly(a) == a \in {"Lseries", "Lshunt"}

IsCOnly(a) == a \in {"Cseries", "Cshunt"}

\* the items yielded for one inductor row of a single-inductor topology
LItems(a, l_comp) ==
  LET l_tols == expand_tolerance(l_comp)
  IN [k \in 1..Len(l_tols) |-> << <<a, <<l_comp[1], NaN>>>>, <<l_tols[k], NaN>> >>]

\* the items yielded for one capacitor row of a single-capacitor topology
CItems(a, c_comp) ==
  LET c_tols == expand_tolerance(c_comp)
  IN [k \in 1..Len(c_tols) |-> << <<a, <<NaN, c_comp[1]>>>>, <<NaN, c_tols[k]>> >>]

\* the items yielded for one (inductor row, capacitor row) pair
LCItems(a, l_comp, c_comp) ==
  LET vals == Product(expand_tolerance(l_comp), expand_tolerance(c_comp))
  IN [k \in 1..Len(vals) |-> << <<a, <<l_comp[1], c_comp[1]>>>>, vals[k] >>]

\* the match statement of component_combinations, given both search results
Combinations(a, lc, cc) ==
  IF IsLOnly(a) THEN Flatten([i \in 1..Len(lc) |-> LItems(a, lc[i])])
  ELSE IF IsCOnly(a) THEN Flatten([i \in 1..Len(cc) |-> CItems(a, cc[i])])
  ELSE LET pairs == Product(lc, cc)
       IN Flatten([p \in 1..Len(pairs) |-> LCItems(a, pairs[p][1], pairs[p][2])])

\* every list component_combinations can yield (both searches succeed)
CombinationsSet(a, xv, ind, cap) ==
  { Combinations(a, lc, cc) :
      lc \in ClosestValues(xv[1], ind), cc \in ClosestValues(xv[2], cap) }

component_combinations_raises(xv, ind, cap) ==
  closest_values_raises(xv[1], ind) \/ closest_values_raises(xv[2], cap)

\* ---- matching_network ----
\* the elements cascaded in front of the device, per topology
Elements(a) ==
  CASE a = "Lshunt" -> << <<"L", "shunt">> >>
    [] a = "Cshunt" -> << <<"C", "shunt">> >>
    [] a = "Lseries" -> << <<"L", "series">> >>
    [] a = "Cseries" -> << <<"C", "series">> >>
    [] a = "LshuntCseries" -> << <<"L", "shunt">>, <<"C", "series">> >>
    [] a = "CshuntLseries" -> << <<"C", "shunt">>, <<"L", "series">> >>
    [] a = "LseriesCshunt" -> << <<"L", "series">>, <<"C", "shunt">> >>
    [] a = "CseriesLshunt" -> << <<"C", "series">>, <<"L", "shunt">> >>

\* The network algebra (skrf) is outside the repository.  A one-port device is
\* the sequence, per frequency point, of the component value that matches it
\* there; an element reflects in proportion to its detuning from that value,
\* a shunt element weighing the upper end of the band and a series element the
\* lower end.
DevicePoints == {900, 1100}
Devices == [1..NPoints -> DevicePoints]
DetuneStep == 100

ElementMag(el, xv, ntwk, f) ==
  LET v == IF el[1] = "L" THEN xv[1] ELSE xv[2]
      w == IF el[2] = "shunt" THEN f ELSE Len(ntwk) + 1 - f
  IN w * (Abs(v - ntwk[f]) \div DetuneStep)

RECURSIVE SeqSum(_)
SeqSum(s) == IF s = <<>> THEN 0 ELSE Head(s) + SeqSum(Tail(s))

matching_network(a, xv, ntwk) ==
  [ params |-> xv,
    s_mag |-> [f \in 1..Len(ntwk) |->
                 SeqSum([e \in 1..Len(Elements(a)) |->
                           ElementMag(Elements(a)[e], xv, ntwk, f)])] ]

\* ---- OptimizerArgs, OptimizeResult, OptimizeResultToleranced ----
\* An optional argument is a sequence: empty for None, else holding the value.
\* A band selector holds the first and the last point of the device network
\* that lie in the band.
None == <<>>

Bands(n) == { b \in (1..n) \X (1..n) : b[1] <= b[2] }

\* rf.Frequency(start, stop, npoints): a linear sweep, in units of points of
\* the device network
Frequency(start, stop, npoints) == [start |-> start, stop |-> stop, npoints |-> npoints]

\* self.ntwk.frequency[self.frequency]: the points of the device in the band
FrequencySlice(fr) == Frequency(fr[1], fr[2], fr[2] - fr[1] + 1)

\* the sweep is never resampled
freq_subset_uncapped(fr, mp) == FrequencySlice(fr)

\* the sweep the working network is taken on
freq_subset(fr, mp) ==
  IF mp # None /\ FrequencySlice(fr).npoints > mp[1]
  THEN Frequency(FrequencySlice(fr).start, FrequencySlice(fr).stop, mp[1])
  ELSE FrequencySlice(fr)

\* ntwk[freq]: the network interpolated linearly on the points of freq
Interpolate(ntwk, freq) ==
  [k \in 1..freq.npoints |->
     IF freq.npoints = 1 THEN ntwk[freq.start]
     ELSE LET num == (k - 1) * (freq.stop - freq.start)
              den == freq.npoints - 1
              i == freq.start + num \div den
          IN IF num % den = 0 THEN ntwk[i]
             ELSE ntwk[i] + ((ntwk[i + 1] - ntwk[i]) * (num % den)) \div den]

\* a constructor that accepts any port count
number_of_ports_unchecked(ports) == FALSE

\* the port check at the head of OptimizerArgs.__init__
number_of_ports_raises(ports) == ports # 1

\* the fields OptimizerArgs.__init__ assigns once the port check has passed
OptimizerArgs__init__(ntwk, fr, mp) ==
  [ntwk |-> ntwk, frequency |-> fr,
   bandlimited_ntwk |-> IF fr # None THEN Interpolate(ntwk, freq_subset(fr, mp)) ELSE ntwk]

\* OptimizerArgs(ntwk): without a band the working network is the device network
OptimizerArgs(ntwk) == OptimizerArgs__init__(ntwk, None, None)

\* an object no field of which has been assigned
Unassigned == [ntwk |-> <<>>, frequency |-> None, bandlimited_ntwk |-> <<>>]

\* a result carries its class; the ntwk of an OptimizeResult is a Network, the
\* ntwk of an OptimizeResultToleranced a NetworkSet
OptimizeResult(a, xv, n) == [class |-> "OptimizeResult", arch |-> a, x |-> xv, ntwk |-> n]

OptimizeResultToleranced(a, xv, nset) ==
  [class |-> "OptimizeResultToleranced", arch |-> a, x |-> xv, ntwk |-> nset]

\* ---- evaluate_components ----
\* tasks: the concatenation of every minimum's combinations, in every way the
\* searches can come out
RECURSIVE TaskLists(_, _, _)
TaskLists(ms, ind, cap) ==
  IF ms = <<>> THEN { <<>> }
  ELSE { h \o t : h \in CombinationsSet(Head(ms).arch, Head(ms).x, ind, cap),
                  t \in TaskLists(Tail(ms), ind, cap) }

evaluate_components_raises(ms, ind, cap) ==
  \E i \in 1..Len(ms) : component_combinations_raises(ms[i].x, ind, cap)

make_tagged_network(tagged_values, a) ==
  << tagged_values[1],
     matching_network(tagged_values[1][1], tagged_values[2], a.bandlimited_ntwk) >>

\* a grouping that puts each item in front of the items of its group
RECURSIVE GroupByNewestFirst(_, _)
GroupByNewestFirst(ntwks, groups) ==
  IF ntwks = <<>> THEN groups
  ELSE LET n == Head(ntwks)
           g == Len(groups)
       IN IF g > 0 /\ groups[g][1] = n[1]
          THEN GroupByNewestFirst(Tail(ntwks),
                       [groups EXCEPT ![g] = <<n[1], <<n[2]>> \o groups[g][2]>>])
          ELSE GroupByNewestFirst(Tail(ntwks), Append(groups, <<n[1], <<n[2]>>>>))

\* itertools.groupby: a new group starts whenever the key differs from the key
\* of the item before.  Tags holding np.NaN compare equal: tuple comparison
\* takes identical objects as equal and np.NaN is one object.
RECURSIVE GroupBy(_, _)
GroupBy(ntwks, groups) ==
  IF ntwks = <<>> THEN groups
  ELSE LET n == Head(ntwks)
           g == Len(groups)
       IN IF g > 0 /\ groups[g][1] = n[1]
          THEN GroupBy(Tail(ntwks),
                       [groups EXCEPT ![g] = <<n[1], Append(groups[g][2], n[2])>>])
          ELSE GroupBy(Tail(ntwks), Append(groups, <<n[1], <<n[2]>>>>))

\* NetworkSet.max_s_mag: per frequency point, the maximum over the set
max_s_mag(nset) ==
  [f \in 1..Len(nset[1].s_mag) |-> SetMax({ nset[n].s_mag[f] : n \in 1..Len(nset) })]

\* a key taken from the first response of the group only
SortKeyNominal(nset) ==
  SeqSum([f \in 1..Len(nset[1].s_mag) |-> nset[1].s_mag[f] * nset[1].s_mag[f]])

\* the sort key: np.sum(r[1].max_s_mag.s_mag ** 2)
SortKey(nset) ==
  LET m == max_s_mag(nset) IN SeqSum([f \in 1..Len(m) |-> m[f] * m[f]])

\* sorted(): ascending and stable; the order as a sequence of indices into keys
RECURSIVE SortedOrder(_, _, _)
SortedOrder(keys, n, order) ==
  IF n > Len(keys) THEN order
  ELSE LET k == Cardinality({ p \in 1..Len(order) : keys[order[p]] <= keys[n] })
       IN SortedOrder(keys, n + 1,
                      SubSeq(order, 1, k) \o <<n>> \o SubSeq(order, k + 1, Len(order)))

\* the result list in generation order, not sorted
unsorted(nsets, keys) ==
  [r \in 1..Len(nsets) |->
     OptimizeResultToleranced(nsets[r][1][1], nsets[r][1][2], nsets[r][2])]

\* the result list: one OptimizeResultToleranced per group, in sorted order
sorted(nsets, keys) ==
  LET order == SortedOrder(keys, 1, <<>>)
  IN [r \in 1..Len(order) |->
        OptimizeResultToleranced(nsets[order[r]][1][1], nsets[order[r]][1][2],
                                 nsets[order[r]][2])]

\* ---- optimize ----
ColumnMin(comps) == -SetMax({ -comps[i][1] : i \in 1..Len(comps) })

bounds ==
  << <<ColumnMin(INDUCTORS), ColumnMax(INDUCTORS)>>,
     <<ColumnMin(CAPACITORS), ColumnMax(CAPACITORS)>> >>

\* np.sqrt(lo * hi), to the unit below
GeometricMean(lo, hi) ==
  CHOOSE r \in lo..hi : r * r <= lo * hi /\ (r + 1) * (r + 1) > lo * hi

\* the starting point: one slot per component type, for every topology
x0 ==
  << GeometricMean(ColumnMin(INDUCTORS), ColumnMax(INDUCTORS)),
     GeometricMean(ColumnMin(CAPACITORS), ColumnMax(CAPACITORS)) >>

\* what optimize_arch hands to scipy's minimize
minimize_call(a, ag) == [x0 |-> x0, args |-> <<a, ag>>, bounds |-> bounds]

\* outcomes of scipy's minimize: parameter pairs within the bounds; both slots
\* are solver variables for every topology
SolverXs == { <<940, 1000>>, <<960, 940>> }

Minimize ==
  { xv \in SolverXs :
      \A k \in 1..2 : bounds[k][1] <= xv[k] /\ xv[k] <= bounds[k][2] }

optimize_arch(a, xv, ag) ==
  OptimizeResult(a, xv, matching_network(a, xv, ag.bandlimited_ntwk))

\* ---- expand_result ----
\* isinstance(result.ntwk, NetworkSet)
IsNetworkSet(res) == res.class = "OptimizeResultToleranced"

\* the networks rebuilt against the working network
expand_result_bandlimited(ag, res) ==
  IF IsNetworkSet(res)
  THEN OptimizeResultToleranced(res.arch, res.x,
         [n \in 1..Len(res.ntwk) |->
            matching_network(res.arch, res.ntwk[n].params, ag.bandlimited_ntwk)])
  ELSE OptimizeResult(res.arch, res.x,
         matching_network(res.arch, res.x, ag.bandlimited_ntwk))

expand_result(ag, res) ==
  IF IsNetworkSet(res)
  THEN OptimizeResultToleranced(res.arch, res.x,
         [n \in 1..Len(res.ntwk) |->
            matching_network(res.arch, res.ntwk[n].params, ag.ntwk)])
  ELSE OptimizeResult(res.arch, res.x, matching_network(res.arch, res.x, ag.ntwk))

\* evaluate_components(ag, *ms) for one outcome t of the catalog searches
Grouped(ag, t) ==
  GroupBy([k \in 1..Len(t) |-> make_tagged_network(t[k], ag)], <<>>)

RankGroups(nsets) == sorted(nsets, [g \in 1..Len(nsets) |-> SortKey(nsets[g][2])])

Ranked(ag, t) == RankGroups(Grouped(ag, t))

\* the results in a returned list
Range(s) == { s[i] : i \in 1..Len(s) }

\* no result
NoResult == [class |-> "None", arch |-> "None", x |-> <<>>, ntwk |-> <<>>]

\* ---- webapp: the /example route ----
Handlers == 1..MaxHandlers

\* the parameters of optimize_internal; none has a default
optimize_internal_params == <<"touchstone_io", "name", "frequency", "title", "max_points">>

\* the call in example(): three positional arguments and max_points by keyword
example_call == [positional |-> <<"path", "Example Antenna", "2.4-2.5GHz">>,
                 keywords |-> {"max_points"}]

\* the parameters a call leaves unbound: the call raises TypeError if any
MissingArguments(params, call) ==
  { params[i] : i \in (Len(call.positional) + 1)..Len(params) } \ call.keywords

ExampleInit ==
  /\ example_cache = None
  /\ ex_pc = [t \in Handlers |-> "idle"]
  /\ ex_later = [t \in Handlers |-> FALSE]
  /\ ex_response = [t \in Handlers |-> "none"]
  /\ ex_calls = 0 /\ ex_started = 0 /\ ex_completed = 0

\* ---- webapp: store_and_redirect ----
\* The requests share one name and band, so a file name is its serial number.
\* The content of a file is the sequence of what was written to it: the number
\* of the request whose response it is, 0 for a file that was there before.
Sharers == 1..MaxShares

Serials == 1..MaxSerial

\* open(name, mode="wt"): opens whether or not the file exists
open_wt_raises(names, n) == FALSE

\* open(name, mode="xt"): FileExistsError if the file exists
open_xt_raises(names, n) == n \in names

NoReturn == [kind |-> "none", name |-> 0, body |-> <<>>]

ShareInit(existing, ok) ==
  /\ sh_dir_ok = ok
  /\ sh_preexisting = existing
  /\ sh_names = existing
  /\ sh_content = [n \in Serials |-> IF n \in existing THEN <<0>> ELSE <<>>]
  /\ sh_pc = [t \in Sharers |-> "idle"]
  /\ sh_serial = [t \in Sharers |-> 1]
  /\ sh_returned = [t \in Sharers |-> NoReturn]

\* ---- webapp: set_timeout, stop_timeout, timeouterror ----
\* Requests are numbered as they arrive; the timer of a request carries its
\* number.  A handler thread is idle, in the view of a request (after
\* set_timeout), or past the view with the response produced (before
\* stop_timeout).  threading.Timer: cancel() stops a timer that still waits.
TimedRequests == 1..MaxTimedRequests

\* Timer.cancel() on a timer in state s
cancel(s) == IF s = "waiting" THEN "cancelled" ELSE s

TimeoutInit ==
  /\ to_count = 0
  /\ to_req = [t \in Handlers |-> 0]
  /\ to_phase = [t \in Handlers |-> "idle"]
  /\ to_timer = [r \in TimedRequests |-> "unarmed"]
  /\ to_owner = [r \in TimedRequests |-> 0]
  /\ to_async = [t \in Handlers |-> <<>>]
  /\ to_raised = {}

\* ---- the state machine: one call of the library per behaviour ----
InitLibrary ==
  /\ pc = "idle"
  /\ raised = FALSE
  /\ value = NaN /\ components = <<>> /\ result = <<>>
  /\ val_and_tolerance = <<NaN, 0>> /\ expanded = <<>>
  /\ arch = "Lshunt" /\ x = <<NaN, NaN>> /\ inductors = <<>> /\ capacitors = <<>>
  /\ searched = {} /\ l_comps = <<>> /\ c_comps = <<>> /\ combinations = <<>>
  /\ args = OptimizerArgs(<<>>) /\ minima = <<>> /\ tasks = <<>>
  /\ tagged_nsets = <<>> /\ scores = <<>> /\ results = <<>>
  /\ optimized = <<>> /\ minimize_calls = <<>>
  /\ base = <<>> /\ number_of_ports = 1 /\ frequency = None /\ max_points = None
  /\ self = Unassigned /\ assigned = {}
  /\ result_arg = NoResult /\ expanded_result = NoResult

Init ==
  /\ InitLibrary
  /\ ExampleInit
  /\ ShareInit({}, TRUE)
  /\ TimeoutInit

\* closest_values(value, components)
ClosestValuesCall ==
  /\ pc = "idle"
  /\ pc' = "closest_values"
  /\ \E v \in Targets, comps \in SeqOf(CatalogRows, MaxRows) :
       /\ value' = v
       /\ components' = comps
       /\ IF closest_values_raises(v, comps)
          THEN raised' = TRUE /\ result' = <<>>
          ELSE raised' = FALSE /\ result' \in ClosestValues(v, comps)
  /\ UNCHANGED <<webVars, ctorVars, xrVars, etVars, ccVars, evVars, optVars>>

\* expand_tolerance(val_and_tolerance), on a catalog row or on the synthetic
\* entry closest_values returns at a sentinel
ExpandToleranceCall ==
  /\ pc = "idle"
  /\ pc' = "expand_tolerance"
  /\ \E row \in CatalogRows \cup { <<v, 0>> : v \in Targets \ {NaN} } :
       /\ val_and_tolerance' = row
       /\ expanded' = expand_tolerance(row)
  /\ raised' = FALSE
  /\ UNCHANGED <<webVars, ctorVars, xrVars, cvVars, ccVars, evVars, optVars>>

\* list(component_combinations(arch, x, inductors, capacitors))
ComponentCombinationsCall ==
  /\ pc = "idle"
  /\ pc' = "component_combinations"
  /\ \E a \in Arch, xv \in PartTargets \X PartTargets,
        ind \in SeqOf(PartRows, MaxParts), cap \in SeqOf(PartRows, MaxParts) :
       /\ arch' = a /\ x' = xv /\ inductors' = ind /\ capacitors' = cap
       /\ IF closest_values_raises(xv[1], ind)
          THEN /\ raised' = TRUE
               /\ searched' = {"L"}
               /\ l_comps' = <<>> /\ c_comps' = <<>> /\ combinations' = <<>>
          ELSE \E lc \in ClosestValues(xv[1], ind) :
                 /\ l_comps' = lc
                 /\ searched' = {"L", "C"}
                 /\ IF closest_values_raises(xv[2], cap)
                    THEN raised' = TRUE /\ c_comps' = <<>> /\ combinations' = <<>>
                    ELSE \E cc \in ClosestValues(xv[2], cap) :
                           /\ raised' = FALSE
                           /\ c_comps' = cc
                           /\ combinations' = Combinations(a, lc, cc)
  /\ UNCHANGED <<webVars, ctorVars, xrVars, cvVars, etVars, evVars, optVars>>

\* OptimizerArgs(ntwk, frequency, max_points)
OptimizerArgsCall ==
  /\ pc = "idle"
  /\ pc' = "OptimizerArgs"
  /\ \E ports \in 1..MaxPorts, d \in Devices,
        fr \in {None} \cup Bands(NPoints),
        mp \in {None} \cup { <<n>> : n \in 1..NPoints + 1 } :
       /\ number_of_ports' = ports /\ base' = d /\ frequency' = fr /\ max_points' = mp
       /\ IF number_of_ports_raises(ports)
          THEN raised' = TRUE /\ self' = Unassigned /\ assigned' = {}
          ELSE /\ raised' = FALSE
               /\ self' = OptimizerArgs__init__(d, fr, mp)
               /\ assigned' = {"ntwk", "frequency", "bandlimited_ntwk"}
  /\ UNCHANGED <<webVars, cvVars, etVars, ccVars, evVars, optVars, xrVars>>

\* the caller obtains a result with the context: a ContinuousResult from a
\* solve, or a DiscreteResult from evaluate_components on one
MakeResult ==
  /\ pc = "OptimizerArgs" /\ ~raised
  /\ pc' = "result"
  /\ \E a \in Arch, xv \in SolverXs :
       \/ result_arg' = optimize_arch(a, xv, self)
       \/ \E t \in TaskLists(<<optimize_arch(a, xv, self)>>, INDUCTORS, CAPACITORS) :
            result_arg' \in Range(Ranked(self, t))
  /\ UNCHANGED <<webVars, raised, cvVars, etVars, ccVars, evVars, optVars, ctorVars, expanded_result>>

\* expand_result(args, result)
ExpandResultCall ==
  /\ pc = "result"
  /\ pc' = "expand_result"
  /\ expanded_result' = expand_result(self, result_arg)
  /\ UNCHANGED <<webVars, raised, cvVars, etVars, ccVars, evVars, optVars, ctorVars, result_arg>>

\* the ContinuousResults a caller can hand to evaluate_components
Minima(ag) ==
  { optimize_arch(a, xv, ag) : a \in Arch, xv \in SolverXs }

\* catalogs other than the defaults: rows of equal nominal, an empty catalog
CustomCatalogs ==
  { << << <<1000, 0>>, <<1000, 100>> >>, CAPACITORS >>,
    <<INDUCTORS, <<>>>> }

\* the (catalogs, minima) a caller hands to evaluate_components: any sequence
\* of minima with the default catalogs, at most one minimum with custom ones
EvalInputs(ag) ==
  { <<<<INDUCTORS, CAPACITORS>>, ms>> : ms \in SeqOf(Minima(ag), MaxMinima) }
  \cup { <<cat, ms>> : cat \in CustomCatalogs, ms \in SeqOf(Minima(ag), 1) }

\* evaluate_components(args, *minima, inductors=..., capacitors=...)
EvaluateComponentsCall ==
  /\ pc = "idle"
  /\ pc' = "evaluate_components"
  /\ \E d \in Devices :
     \E in \in EvalInputs(OptimizerArgs(d)) :
     LET cat == in[1]
         ms == in[2]
     IN
       /\ args' = OptimizerArgs(d)
       /\ minima' = ms
       /\ inductors' = cat[1] /\ capacitors' = cat[2]
       /\ IF evaluate_components_raises(ms, cat[1], cat[2])
          THEN /\ raised' = TRUE
               /\ tasks' = <<>> /\ tagged_nsets' = <<>> /\ scores' = <<>>
               /\ results' = <<>>
          ELSE /\ raised' = FALSE
               /\ tasks' \in TaskLists(ms, cat[1], cat[2])
               /\ tagged_nsets' =
                    GroupBy([t \in 1..Len(tasks') |-> make_tagged_network(tasks'[t], args')],
                            <<>>)
               /\ scores' = [g \in 1..Len(tagged_nsets') |-> SortKey(tagged_nsets'[g][2])]
               /\ results' = sorted(tagged_nsets', scores')
  /\ UNCHANGED <<webVars, ctorVars, xrVars, cvVars, etVars, optVars,
                 arch, x, searched, l_comps, c_comps, combinations>>

\* optimize(args): entry
OptimizeCall ==
  /\ pc = "idle"
  /\ pc' = "optimize"
  /\ \E d \in Devices : args' = OptimizerArgs(d)
  /\ optimized' = <<>> /\ minimize_calls' = <<>>
  /\ raised' = FALSE
  /\ UNCHANGED <<webVars, ctorVars, xrVars, cvVars, etVars, ccVars,
                 minima, tasks, tagged_nsets, scores, results>>

\* one iteration of [optimize_arch(a) for a in Arch]; the last one returns
OptimizeArch ==
  /\ pc = "optimize"
  /\ Len(optimized) < Len(ArchEnum)
  /\ minimize_calls' =
       Append(minimize_calls, minimize_call(ArchEnum[Len(optimized) + 1], args))
  /\ \E xv \in Minimize :
       optimized' = Append(optimized, optimize_arch(ArchEnum[Len(optimized) + 1], xv, args))
  /\ pc' = IF Len(optimized) + 1 = Len(ArchEnum) THEN "optimize_return" ELSE "optimize"
  /\ UNCHANGED <<webVars, ctorVars, xrVars, raised, cvVars, etVars, ccVars, evVars>>

Next ==
  \/ ClosestValuesCall
  \/ ExpandToleranceCall
  \/ ComponentCombinationsCall
  \/ EvaluateComponentsCall
  \/ OptimizeCall
  \/ OptimizeArch
  \/ OptimizerArgsCall
  \/ MakeResult
  \/ ExpandResultCall

Spec == Init /\ [][Next]_vars

\* ---- the state machine of the /example route: handler threads ----
\* a /example request arrives at handler thread t
ExampleRequest(t) ==
  /\ ex_pc[t] = "idle"
  /\ ex_started < MaxExampleRequests
  /\ ex_started' = ex_started + 1
  /\ ex_pc' = [ex_pc EXCEPT ![t] = "check"]
  /\ ex_later' = [ex_later EXCEPT ![t] = ex_completed > 0]
  /\ ex_response' = [ex_response EXCEPT ![t] = "none"]
  /\ UNCHANGED <<libVars, shVars, toVars, example_cache, ex_calls, ex_completed>>

\* if example_cache is None:
ExampleCheck(t) ==
  /\ ex_pc[t] = "check"
  /\ ex_pc' = [ex_pc EXCEPT ![t] = IF example_cache = None THEN "call" ELSE "render"]
  /\ UNCHANGED <<libVars, shVars, toVars, example_cache, ex_later, ex_response,
                 ex_calls, ex_started, ex_completed>>

\* example_cache = optimize_internal(...): the call raises TypeError when it
\* leaves a parameter unbound, else its result is assigned to the global
ExampleCall(t) ==
  /\ ex_pc[t] = "call"
  /\ ex_calls' = ex_calls + 1
  /\ IF MissingArguments(optimize_internal_params, example_call) # {}
     THEN /\ ex_pc' = [ex_pc EXCEPT ![t] = "raise"]
          /\ UNCHANGED example_cache
     ELSE /\ ex_pc' = [ex_pc EXCEPT ![t] = "render"]
          /\ example_cache' = <<ex_calls + 1>>
  /\ UNCHANGED <<libVars, shVars, toVars, ex_later, ex_response, ex_started, ex_completed>>

\* the request ends: the page rendered from the cache, or the error response
ExampleReturn(t) ==
  /\ ex_pc[t] \in {"render", "raise"}
  /\ ex_response' = [ex_response EXCEPT
                       ![t] = IF ex_pc[t] = "render" THEN "rendered" ELSE "error"]
  /\ ex_completed' = ex_completed + 1
  /\ ex_pc' = [ex_pc EXCEPT ![t] = "idle"]
  /\ UNCHANGED <<libVars, shVars, toVars, example_cache, ex_later, ex_calls, ex_started>>

NextExample ==
  \E t \in Handlers :
    \/ ExampleRequest(t)
    \/ ExampleCheck(t)
    \/ ExampleCall(t)
    \/ ExampleReturn(t)

SpecExample == Init /\ [][NextExample]_vars

\* ---- the state machine of store_and_redirect: concurrent share requests ----
\* any files may be in the share directory, or the directory may be unusable
InitShare ==
  /\ InitLibrary
  /\ ExampleInit
  /\ \E existing \in SUBSET Serials, ok \in BOOLEAN : ShareInit(existing, ok)
  /\ TimeoutInit

\* store_and_redirect(name, frequency, response) is entered by request t
ShareRequest(t) ==
  /\ sh_pc[t] = "idle"
  /\ sh_pc' = [sh_pc EXCEPT ![t] = "open"]
  /\ sh_serial' = [sh_serial EXCEPT ![t] = 1]
  /\ UNCHANGED <<libVars, exVars, toVars, sh_dir_ok, sh_preexisting, sh_names, sh_content,
                 sh_returned>>

\* one iteration of the loop up to open(): the file is created empty, or
\* FileExistsError moves on to the next serial; the loop running out, or any
\* other error, ends in the outer except
ShareOpen(t) ==
  /\ sh_pc[t] = "open"
  /\ IF ~sh_dir_ok
     THEN /\ sh_pc' = [sh_pc EXCEPT ![t] = "except"]
          /\ UNCHANGED <<sh_serial, sh_names, sh_content>>
     ELSE IF open_xt_raises(sh_names, sh_serial[t])
     THEN /\ IF sh_serial[t] = MaxSerial
             THEN sh_pc' = [sh_pc EXCEPT ![t] = "except"] /\ UNCHANGED sh_serial
             ELSE sh_serial' = [sh_serial EXCEPT ![t] = @ + 1] /\ UNCHANGED sh_pc
          /\ UNCHANGED <<sh_names, sh_content>>
     ELSE /\ sh_names' = sh_names \cup {sh_serial[t]}
          /\ sh_content' = [sh_content EXCEPT ![sh_serial[t]] = <<>>]
          /\ sh_pc' = [sh_pc EXCEPT ![t] = "write"]
          /\ UNCHANGED sh_serial
  /\ UNCHANGED <<libVars, exVars, toVars, sh_dir_ok, sh_preexisting, sh_returned>>

\* f.write(response) and the close of the file: done, or an I/O error
ShareWrite(t) ==
  /\ sh_pc[t] = "write"
  /\ \/ /\ sh_content' = [sh_content EXCEPT ![sh_serial[t]] = Append(@, t)]
        /\ sh_pc' = [sh_pc EXCEPT ![t] = "redirect"]
     \/ /\ sh_pc' = [sh_pc EXCEPT ![t] = "except"]
        /\ UNCHANGED sh_content
  /\ UNCHANGED <<libVars, exVars, toVars, sh_dir_ok, sh_preexisting, sh_names, sh_serial,
                 sh_returned>>

\* return redirect(url_for(".share", name=final_name)), or return response
ShareReturn(t) ==
  /\ sh_pc[t] \in {"redirect", "except"}
  /\ sh_returned' =
       [sh_returned EXCEPT
          ![t] = IF sh_pc[t] = "redirect"
                 THEN [kind |-> "redirect", name |-> sh_serial[t], body |-> <<>>]
                 ELSE [kind |-> "response", name |-> 0, body |-> <<t>>]]
  /\ sh_pc' = [sh_pc EXCEPT ![t] = "done"]
  /\ UNCHANGED <<libVars, exVars, toVars, sh_dir_ok, sh_preexisting, sh_names, sh_content,
                 sh_serial>>

NextShare ==
  \E t \in Sharers :
    \/ ShareRequest(t)
    \/ ShareOpen(t)
    \/ ShareWrite(t)
    \/ ShareReturn(t)

SpecShare == InitShare /\ [][NextShare]_vars

\* ---- the state machine of the request timeout: handler and timer threads ----
\* before_request: a request arrives at idle handler thread t, set_timeout
\* starts its timer
SetTimeout(t) ==
  /\ to_phase[t] = "idle"
  /\ to_count < MaxTimedRequests
  /\ to_count' = to_count + 1
  /\ to_req' = [to_req EXCEPT ![t] = to_count + 1]
  /\ to_phase' = [to_phase EXCEPT ![t] = "view"]
  /\ to_timer' = [to_timer EXCEPT ![to_count + 1] = "waiting"]
  /\ to_owner' = [to_owner EXCEPT ![to_count + 1] = t]
  /\ UNCHANGED <<libVars, exVars, shVars, to_async, to_raised>>

\* the view of the request returns its response
ViewReturns(t) ==
  /\ to_phase[t] = "view"
  /\ to_phase' = [to_phase EXCEPT ![t] = "responded"]
  /\ UNCHANGED <<libVars, exVars, shVars, to_count, to_req, to_timer, to_owner,
                 to_async, to_raised>>

\* after_request: stop_timeout cancels the timer of the request
StopTimeout(t) ==
  /\ to_phase[t] = "responded"
  /\ to_timer' = [to_timer EXCEPT ![to_req[t]] = cancel(@)]
  /\ to_phase' = [to_phase EXCEPT ![t] = "idle"]
  /\ UNCHANGED <<libVars, exVars, shVars, to_count, to_req, to_owner,
                 to_async, to_raised>>

\* the timer thread of request r: the interval elapses before a cancel
TimerExpires(r) ==
  /\ to_timer[r] = "waiting"
  /\ to_timer' = [to_timer EXCEPT ![r] = "running"]
  /\ UNCHANGED <<libVars, exVars, shVars, to_count, to_req, to_phase, to_owner,
                 to_async, to_raised>>

\* send_signal: stopit.async_raise leaves the exception pending in the
\* handler thread whose ident set_timeout captured
SendSignal(r) ==
  /\ to_timer[r] = "running"
  /\ to_timer' = [to_timer EXCEPT ![r] = "finished"]
  /\ to_async' = [to_async EXCEPT ![to_owner[r]] = <<r>>]
  /\ UNCHANGED <<libVars, exVars, shVars, to_count, to_req, to_phase, to_owner,
                 to_raised>>

\* the interpreter raises the pending exception in thread t, wherever the
\* thread is; in a view, timeouterror turns it into the response
TimeoutRaised(t) ==
  /\ to_async[t] # <<>>
  /\ to_async' = [to_async EXCEPT ![t] = <<>>]
  /\ to_raised' = to_raised \cup
       { [timer |-> to_async[t][1], request |-> to_req[t], phase |-> to_phase[t]] }
  /\ to_phase' = [to_phase EXCEPT ![t] = IF @ = "view" THEN "responded" ELSE @]
  /\ UNCHANGED <<libVars, exVars, shVars, to_count, to_req, to_timer, to_owner>>

NextTimeout ==
  \/ \E t \in Handlers : SetTimeout(t) \/ ViewReturns(t) \/ StopTimeout(t) \/ TimeoutRaised(t)
  \/ \E r \in TimedRequests : TimerExpires(r) \/ SendSignal(r)

SpecTimeout == Init /\ [][NextTimeout]_vars

\* ======================= claims on evaluate_components =======================
Evaluated == pc = "evaluate_components" /\ ~raised

TagOf(r) == <<r.arch, r.x>>

\* C1: no two DiscreteResults returned by evaluate_components carry the same
\* (topology, snapped nominal values) tag, wherever the equal-tagged candidates
\* occur in the generated candidate sequence.
C1_TagsUnique ==
  Evaluated =>
    \A i, j \in 1..Len(results) : i # j => TagOf(results[i]) # TagOf(results[j])

\* the position a group takes in an ascending stable arrangement by score
Rank(keys, i) ==
  Cardinality({ j \in 1..Len(keys) : keys[j] < keys[i] })
  + Cardinality({ j \in 1..i : keys[j] = keys[i] })

\* C2: the returned list is ordered by non-decreasing score, and groups with
\* equal scores keep the order in which they were generated.
C2_SortedStable ==
  Evaluated =>
    /\ Len(results) = Len(tagged_nsets)
    /\ \A g \in 1..Len(tagged_nsets) :
         /\ TagOf(results[Rank(scores, g)]) = tagged_nsets[g][1]
         /\ results[Rank(scores, g)].ntwk = tagged_nsets[g][2]
    /\ \A r \in 1..(Len(results) - 1) :
         SortKey(results[r].ntwk) <= SortKey(results[r + 1].ntwk)

\* the sort changed the generation order, and two groups tied
C2_Witness ==
  /\ Evaluated
  /\ \E g, h \in 1..Len(scores) : g < h /\ scores[g] > scores[h]
  /\ \E g, h \in 1..Len(scores) :
       g < h /\ scores[g] = scores[h] /\ tagged_nsets[g] # tagged_nsets[h]

\* the largest squared reflection magnitude over every response and every point
MaxSquared(nset) ==
  SetMax({ nset[n].s_mag[f] * nset[n].s_mag[f] :
             n \in 1..Len(nset), f \in 1..Len(nset[1].s_mag) })

\* per frequency point the largest magnitude of the group, squared, summed over
\* the band
RECURSIVE EnvelopeEnergy(_, _)
EnvelopeEnergy(nset, f) ==
  IF f = 0 THEN 0
  ELSE LET worst == SetMax({ nset[n].s_mag[f] : n \in 1..Len(nset) })
       IN worst * worst + EnvelopeEnergy(nset, f - 1)

\* C3 as stated: the score that ranks a group is the maximum over every
\* response and every frequency point of the squared reflection magnitude.
C3_ScoreIsMaximum ==
  Evaluated =>
    /\ \A g \in 1..Len(tagged_nsets) : scores[g] = MaxSquared(tagged_nsets[g][2])
    /\ \A r \in 1..(Len(results) - 1) :
         MaxSquared(results[r].ntwk) <= MaxSquared(results[r + 1].ntwk)

\* C3 as amended: the score that ranks a group is the sum over the frequency
\* points of the band of the squared per-point maximum of the reflection
\* magnitude over the responses of the group.
C3_ScoreIsEnvelopeEnergy ==
  Evaluated =>
    /\ \A g \in 1..Len(tagged_nsets) :
         scores[g] = EnvelopeEnergy(tagged_nsets[g][2], Len(args.bandlimited_ntwk))
    /\ \A r \in 1..(Len(results) - 1) :
         EnvelopeEnergy(results[r].ntwk, Len(args.bandlimited_ntwk))
           <= EnvelopeEnergy(results[r + 1].ntwk, Len(args.bandlimited_ntwk))

\* a group of several responses whose score is neither its largest squared
\* magnitude nor the score of any single response
C3_Witness ==
  /\ Evaluated
  /\ \E g \in 1..Len(tagged_nsets) :
       LET nset == tagged_nsets[g][2]
       IN /\ Len(nset) > 1
          /\ scores[g] > MaxSquared(nset)
          /\ \A n \in 1..Len(nset) : scores[g] > SortKey(<<nset[n]>>)

\* ========================= claims on closest_values ==========================
\* closest_values returned for a numeric target that is not a boundary sentinel
Searched ==
  /\ pc = "closest_values" /\ ~raised /\ value # NaN
  /\ ~IsClose(value, LowerSentinel)
  /\ ~IsClose(value, UpperFactor * ColumnMax(components))

Below(rows) == \E k \in 1..Len(rows) : rows[k][1] < value

Above(rows) == \E k \in 1..Len(rows) : rows[k][1] > value

\* the closest row deviates from the target by more than 0.1%
ClosestIsOff == \A k \in 1..Len(components) : 1000 * Abs(components[k][1] - value) > value

\* C4 as stated: for any non-empty catalog and any target that is not a boundary
\* sentinel, when the closest row deviates by more than 0.1% the result holds a
\* row below the target and a row above it.
C4_AlwaysBrackets ==
  Searched /\ ClosestIsOff => Below(result) /\ Above(result)

\* C4 as amended: the result brackets the target when the catalog has a row on
\* either side of it; when every catalog row lies on one side, the result is
\* the whole catalog, all rows on that side.
C4_BracketsWhenPossible ==
  Searched /\ ClosestIsOff =>
    /\ Below(components) /\ Above(components) => Below(result) /\ Above(result)
    /\ ~(Below(components) /\ Above(components)) => Len(result) = Len(components)

\* a bracket of two rows taken from a catalog that has more rows
C4_Witness ==
  /\ Searched /\ ClosestIsOff
  /\ value = 950 /\ Len(components) = 3 /\ Len(result) = 2
  /\ Below(result) /\ Above(result)

\* result is the first n rows of an ordering of the catalog by non-decreasing
\* absolute deviation
IsPrefixOfOrdering(n) ==
  \E p \in Perms(Len(components)) :
    /\ \A i, j \in 1..Len(components) :
         i < j => Abs(components[p[i]][1] - value) <= Abs(components[p[j]][1] - value)
    /\ result = [k \in 1..n |-> components[p[k]]]

SameSide(k) == Sign(result[k][1] - value) = Sign(result[1][1] - value)

\* C5 as stated: closest first; a closest row within 0.1% is returned alone;
\* otherwise the result is the prefix of the ordering by deviation that ends
\* with the first row on the other side of the target than the closest row.
C5_EndsOnOtherSide ==
  Searched =>
    /\ Len(result) >= 1
    /\ IsPrefixOfOrdering(Len(result))
    /\ ~ClosestIsOff => Len(result) = 1
    /\ ClosestIsOff =>
         /\ ~SameSide(Len(result))
         /\ \A k \in 1..(Len(result) - 1) : SameSide(k)

\* C5 as amended: as stated, except that when no catalog row lies on the other
\* side of the target than the closest row, the result is the whole ordering.
C5_PrefixOfOrdering ==
  Searched =>
    /\ Len(result) >= 1
    /\ IsPrefixOfOrdering(Len(result))
    /\ ~ClosestIsOff => Len(result) = 1
    /\ ClosestIsOff =>
         /\ \A k \in 1..(Len(result) - 1) : SameSide(k)
         /\ \/ ~SameSide(Len(result))
            \/ /\ Len(result) = Len(components)
               /\ ~(Below(components) /\ Above(components))

\* closest row, a farther row on the same side, then the first row on the
\* other side
C5_Witness ==
  /\ Searched /\ ClosestIsOff
  /\ Len(result) = 3 /\ SameSide(2) /\ ~SameSide(3)

\* C6: a target numerically indistinguishable from 1e-3, or from twice the
\* largest nominal of the catalog, yields exactly the entry (target, 0.0).
C6_SentinelEntry ==
  pc = "closest_values" /\ value # NaN =>
    /\ IsClose(value, 1) => ~raised /\ result = << <<value, 0>> >>
    /\ components # <<>> /\ IsClose(value, 2 * ColumnMax(components)) =>
         ~raised /\ result = << <<value, 0>> >>

\* the upper sentinel, on a catalog that holds rows
C6_Witness ==
  /\ pc = "closest_values" /\ ~raised
  /\ Len(components) = 3 /\ value = 2 * ColumnMax(components)
  /\ result = << <<value, 0>> >>

\* ===================== claims on component_combinations ======================
Combined == pc = "component_combinations" /\ ~raised

TwoElement == arch \in {"LshuntCseries", "CshuntLseries", "LseriesCshunt", "CseriesLshunt"}

\* the number of tolerance corners of a row and the value at each of them
Corners(row) == IF row[2] > 0 THEN 3 ELSE 1

CornerValue(row, c) ==
  CASE c = 1 -> row[1] [] c = 2 -> row[1] - row[2] [] c = 3 -> row[1] + row[2]

\* (inductor row, capacitor row, inductor corner, capacitor corner)
Combos ==
  { t \in (1..Len(l_comps)) \X (1..Len(c_comps)) \X (1..3) \X (1..3) :
      t[3] <= Corners(l_comps[t[1]]) /\ t[4] <= Corners(c_comps[t[2]]) }

\* u comes before t: leftmost coordinate slowest
Before(u, t) ==
  \E k \in 1..4 : u[k] < t[k] /\ \A h \in 1..(k - 1) : u[h] = t[h]

\* C7: for a two-element topology, exactly one item per combination of
\* (inductor row, capacitor row, inductor corner, capacitor corner), the
\* inductor row slowest and the capacitor corner fastest; every item's tag
\* holds the nominals of its two rows.
C7_CrossProduct ==
  Combined /\ TwoElement =>
    /\ l_comps \in ClosestValues(x[1], inductors)
    /\ c_comps \in ClosestValues(x[2], capacitors)
    /\ Len(combinations) = Cardinality(Combos)
    /\ \A t \in Combos :
         combinations[1 + Cardinality({ u \in Combos : Before(u, t) })] =
           << <<arch, <<l_comps[t[1]][1], c_comps[t[2]][1]>>>>,
              <<CornerValue(l_comps[t[1]], t[3]), CornerValue(c_comps[t[2]], t[4])>> >>

\* two rows on each axis, one of them with a tolerance: (1 + 3) * (1 + 3) items
C7_Witness ==
  /\ Combined /\ TwoElement
  /\ Len(l_comps) = 2 /\ Len(c_comps) = 2 /\ Len(combinations) = 16

\* the axis a single-element topology applies to, and the rows searched on it
Applicable == IF arch \in {"Lshunt", "Lseries"} THEN "L" ELSE "C"

ApplicableTarget == IF Applicable = "L" THEN x[1] ELSE x[2]

ApplicableCatalog == IF Applicable = "L" THEN inductors ELSE capacitors

Other == IF Applicable = "L" THEN 2 ELSE 1

RECURSIVE TotalCorners(_)
TotalCorners(rows) ==
  IF rows = <<>> THEN 0 ELSE Corners(Head(rows)) + TotalCorners(Tail(rows))

\* C8: for a single-element topology the catalog search and the tolerance
\* expansion are performed only on the applicable axis; the other axis is the
\* "not applicable" sentinel in the tag and the values of every item, whatever
\* the input holds in that slot, and the number of items is the total number
\* of tolerance corners of the applicable axis's candidate rows.
C8_OnlyApplicableAxis ==
  pc = "component_combinations" /\ ~TwoElement =>
    /\ searched = {Applicable}
    /\ \A k \in 1..Len(combinations) :
         combinations[k][1][2][Other] = NaN /\ combinations[k][2][Other] = NaN
    /\ ~closest_values_raises(ApplicableTarget, ApplicableCatalog) =>
         \E rows \in ClosestValues(ApplicableTarget, ApplicableCatalog) :
           ~raised /\ Len(combinations) = TotalCorners(rows)

\* ========================= claim on expand_tolerance =========================
\* C9: [nominal, nominal - tolerance, nominal + tolerance] when the tolerance
\* is greater than 0, [nominal] when it is 0.
C9_ExpandTolerance ==
  pc = "expand_tolerance" =>
    /\ val_and_tolerance[2] > 0 =>
         expanded = << val_and_tolerance[1],
                       val_and_tolerance[1] - val_and_tolerance[2],
                       val_and_tolerance[1] + val_and_tolerance[2] >>
    /\ val_and_tolerance[2] = 0 => expanded = << val_and_tolerance[1] >>

C9_Witness ==
  /\ pc = "expand_tolerance"
  /\ val_and_tolerance = <<1300, 100>> /\ expanded = <<1300, 1200, 1400>>

\* ============================= claim on optimize =============================
\* C10: optimize returns exactly 8 ContinuousResults, one per topology, in
\* topology-enumeration order; the solves complete in that order.
C10_AllArchsInOrder ==
  LET order == << "Lshunt", "Cshunt", "Lseries", "Cseries",
                  "LshuntCseries", "CshuntLseries", "LseriesCshunt", "CseriesLshunt" >>
  IN /\ pc \in {"optimize", "optimize_return"} =>
          /\ Len(optimized) <= 8
          /\ \A i \in 1..Len(optimized) : optimized[i].arch = order[i]
     /\ pc = "optimize_return" => Len(optimized) = 8

\* a returned list whose solves did not all end on the same parameters
C10_Witness ==
  /\ pc = "optimize_return"
  /\ Len(optimized) = 8
  /\ optimized[1].x # optimized[8].x

\* the slot of the parameter pair a single-element topology does not use
UnusedSlot(a) == IF IsLOnly(a) THEN 2 ELSE 1

\* C11: for each single-element topology, optimize gives the solver only the
\* applicable parameter: the other slot is not among the solver's variables
\* and is the "not applicable" sentinel in the returned ContinuousResult.
C11_OnlyApplicableParameter ==
  pc \in {"optimize", "optimize_return"} =>
    \A i \in 1..Len(optimized) :
      IsLOnly(optimized[i].arch) \/ IsCOnly(optimized[i].arch) =>
        /\ Len(minimize_calls[i].x0) = 1
        /\ Len(minimize_calls[i].bounds) = 1
        /\ optimized[i].x[UnusedSlot(optimized[i].arch)] = NaN

\* C18: in every DiscreteResult returned by evaluate_components, the first
\* network of the group is the one built from the tag's nominal values, with no
\* tolerance offset on any component, also when candidates produced from
\* several ContinuousResults are merged into the group.
C18_FirstIsNominal ==
  Evaluated =>
    \A r \in 1..Len(results) :
      /\ results[r].ntwk[1].params = results[r].x
      /\ results[r].ntwk[1] =
           matching_network(results[r].arch, results[r].x, args.bandlimited_ntwk)

\* a group merged from the candidates of two ContinuousResults: both triples
\* of a row with a tolerance, the nominal network first
C18_Witness ==
  /\ Evaluated
  /\ Len(minima) = 2
  /\ \E r \in 1..Len(results) :
       /\ Len(results[r].ntwk) = 6
       /\ results[r].ntwk[1].params = results[r].x
       /\ results[r].ntwk[2].params # results[r].x
       /\ results[r].ntwk[4].params = results[r].x

\* the catalog of the element type a slot of the parameter pair stands for
CatalogOf(k) == IF k = 1 THEN INDUCTORS ELSE CAPACITORS

\* C16: the bounds of the optimizer are boundary sentinels of closest_values:
\* for each element type, every lower or upper bound that optimize passes to
\* the solver is a value for which closest_values, on that element type's
\* catalog, returns the single synthetic entry (value, 0.0).
C16_BoundsAreSentinels ==
  pc \in {"optimize", "optimize_return"} =>
    \A i \in 1..Len(minimize_calls) :
      \A k \in 1..2, j \in 1..2 :
        LET b == minimize_calls[i].bounds[k][j]
        IN /\ ~closest_values_raises(b, CatalogOf(k))
           /\ ClosestValues(b, CatalogOf(k)) = { << <<b, 0>> >> }

\* ========================== claims on OptimizerArgs ==========================
Constructed == pc = "OptimizerArgs" /\ ~raised

\* C12: constructing an OptimizerArgs with a device network whose port count
\* is not 1 fails with an error, for every band and max_points argument, before
\* any field is assigned; no context and no working network results.
C12_RejectsNon1Port ==
  pc = "OptimizerArgs" /\ number_of_ports # 1 =>
    /\ raised
    /\ assigned = {}
    /\ self = Unassigned

\* a two-port network, handed over with a band and a cap, is refused
C12_Witness ==
  /\ pc = "OptimizerArgs" /\ raised
  /\ number_of_ports = 2 /\ frequency = <<1, 2>> /\ max_points = <<1>>

SlicePoints == frequency[2] - frequency[1] + 1

\* C13: with a band selector and a max_points cap, the working network has
\* exactly max_points points if the band slice of the device network has more
\* than max_points points, and exactly the slice's points otherwise: its point
\* count is min(slice point count, max_points).
C13_PointCount ==
  Constructed /\ frequency # None /\ max_points # None =>
    /\ SlicePoints > max_points[1] => Len(self.bandlimited_ntwk) = max_points[1]
    /\ SlicePoints <= max_points[1] =>
         self.bandlimited_ntwk = SubSeq(self.ntwk, frequency[1], frequency[2])
    /\ Len(self.bandlimited_ntwk) =
         IF SlicePoints < max_points[1] THEN SlicePoints ELSE max_points[1]

\* a slice of more points than the cap, resampled down to the cap
C13_Witness ==
  /\ Constructed /\ frequency # None /\ max_points # None
  /\ SlicePoints > max_points[1]
  /\ Len(self.bandlimited_ntwk) = max_points[1]
  /\ Len(self.bandlimited_ntwk) < Len(self.ntwk)

\* ========================== claim on expand_result ===========================
\* C14: expand_result returns a result of the same topology and the same tag
\* parameters as its input, whose networks are rebuilt against the full device
\* network of the context rather than the band-limited one; for a
\* DiscreteResult the rebuilt group has as many networks as the input group, in
\* the same order, the i-th built from the component values of the i-th input
\* network; the input result and the context are left unchanged.
C14_ExpandResult ==
  [][pc' = "expand_result" =>
       /\ expanded_result'.class = result_arg.class
       /\ expanded_result'.arch = result_arg.arch
       /\ expanded_result'.x = result_arg.x
       /\ IF result_arg.class = "OptimizeResultToleranced"
          THEN /\ Len(expanded_result'.ntwk) = Len(result_arg.ntwk)
               /\ \A i \in 1..Len(result_arg.ntwk) :
                    /\ expanded_result'.ntwk[i] =
                         matching_network(result_arg.arch, result_arg.ntwk[i].params,
                                          self.ntwk)
                    /\ Len(expanded_result'.ntwk[i].s_mag) = Len(base)
          ELSE /\ expanded_result'.ntwk =
                    matching_network(result_arg.arch, result_arg.x, self.ntwk)
               /\ Len(expanded_result'.ntwk.s_mag) = Len(base)
       /\ result_arg' = result_arg
       /\ self' = self
       /\ self.ntwk = base]_vars

\* a group of several networks, made on a working network of fewer points
\* than the device network, expanded to the device's points
C14_Witness ==
  /\ pc = "expand_result"
  /\ result_arg.class = "OptimizeResultToleranced"
  /\ Len(result_arg.ntwk) > 1
  /\ Len(self.bandlimited_ntwk) < Len(self.ntwk)
  /\ Len(expanded_result.ntwk) = Len(result_arg.ntwk)
  /\ Len(expanded_result.ntwk[1].s_mag) = Len(self.ntwk)
  /\ expanded_result.ntwk[1].s_mag # expanded_result.ntwk[2].s_mag

\* ================== further claims on evaluate_components ===================
\* C15: evaluate_components never silently returns an empty ranked list:
\* whenever its inputs yield no candidate (no ContinuousResult supplied, or an
\* empty catalog), the call ends in an error instead of returning a list.
C15_NeverEmptyList ==
  pc = "evaluate_components" =>
    /\ ~raised => results # <<>>
    /\ minima = <<>> \/ inductors = <<>> \/ capacitors = <<>> => raised

\* ============================ claims on the webapp ===========================
\* C17: across any number of /example requests in one process, concurrent
\* ones included, the example optimization is computed once: after the first
\* request has completed, every later request renders from the cached result
\* without calling optimize_internal again, and the cache, once set, is never
\* cleared or replaced.
C17_ComputedOnce ==
  [][/\ ex_calls' <= 1
     /\ \A t \in Handlers :
          ex_later'[t] =>
            /\ ex_pc'[t] \notin {"call", "raise"}
            /\ ex_pc[t] # "idle" /\ ex_pc'[t] = "idle" => ex_response'[t] = "rendered"
     /\ example_cache # None => example_cache' = example_cache]_vars

\* C19: store_and_redirect never overwrites or modifies a file that already
\* exists in the share directory: under any interleaving of concurrent share
\* requests with the same name and band, each request that succeeds creates a
\* file under a serial-numbered name no other request wrote, and the redirect
\* it returns names the file holding its own response; if no file can be
\* created, the rendered response is returned unchanged instead of an error.
C19_NoOverwrite ==
  /\ \A n \in sh_preexisting : sh_content[n] = <<0>>
  /\ \A n \in Serials : Len(sh_content[n]) <= 1
  /\ \A t \in Sharers :
       /\ sh_returned[t].kind = "redirect" =>
            /\ sh_returned[t].name \in sh_names \ sh_preexisting
            /\ sh_content[sh_returned[t].name] = <<t>>
            /\ \A u \in Sharers \ {t} :
                 sh_returned[u].kind = "redirect" =>
                   sh_returned[u].name # sh_returned[t].name
       /\ sh_returned[t].kind = "response" => sh_returned[t].body = <<t>>
       /\ sh_pc[t] = "done" => sh_returned[t].kind \in {"redirect", "response"}

\* two concurrent requests, past a file that was there before, each redirected
\* to a file of its own
C19_Witness ==
  /\ sh_preexisting = {1}
  /\ sh_returned[1].kind = "redirect" /\ sh_returned[2].kind = "redirect"
  /\ sh_returned[1].name = 3 /\ sh_returned[2].name = 2
  /\ sh_content = << <<0>>, <<2>>, <<1>> >>

\* request r has been answered: its thread is past stop_timeout
Answered(r) ==
  /\ to_owner[r] # 0
  /\ to_req[to_owner[r]] # r \/ to_phase[to_owner[r]] = "idle"

\* C20: for every request, the timer armed by set_timeout is cancelled by
\* stop_timeout once the response is produced, and a timeout exception is only
\* ever raised in the handler thread while that thread is still processing the
\* request that armed the timer: never after that request has produced its
\* response, and never during a later request served by the same thread.
C20_TimeoutWithinRequest ==
  /\ \A r \in TimedRequests : Answered(r) => to_timer[r] \notin {"waiting", "running"}
  /\ \A e \in to_raised : e.request = e.timer /\ e.phase = "view"

====
